---- MODULE Spec2Model ----
(***************************************************************************)
(* Contact-management backend.  The contact repository                     *)
(* (src/src/repository/contacts.py): the contacts table, the six           *)
(* repository functions and the request-scoped database session.  The      *)
(* token service (src/src/services/auth.py), the role policy               *)
(* (src/src/services/roles.py) and the contact routes                      *)
(* (src/src/routes/contacts.py) that put them in front of the repository.  *)
(*                                                                         *)
(* Encodings.  A Python str is a sequence of one-character strings.        *)
(* Python None is the value None below, which no str equals.  A stored     *)
(* birthday 'YYYY-MM-DD' is the triple <<Y, M, D>> that                    *)
(* birthday.split('-') followed by int() yields; a date is such a triple.  *)
(* A function's outcome is a record [kind, rows]: kind "list" for a list   *)
(* of rows, "contact" for one row, "None" for Python None, "raise" for an  *)
(* exception that leaves the function.                                     *)
(***************************************************************************)
EXTENDS Integers, Sequences, FiniteSets, TLC

VARIABLES contacts, next_id, today, elapsed, session, committed, call, result,
          utcnow, bearer, response, redis, log, db

vars == <<contacts, next_id, today, elapsed, session, committed, call, result,
          utcnow, bearer, response, redis, log, db>>

-----------------------------------------------------------------------------
(* Bounds of the model.                                                    *)

\* Primary keys handed out by the table: create is disabled after MaxId rows.
MaxId == 2

\* Days the clock may advance in the birthday specification.
MaxTicks == 4

\* Rows of the table the birthday specification starts from.
MaxRows == 3

-----------------------------------------------------------------------------
(* Strings: str.lower() and str.capitalize().                              *)

None == <<"None">>

Lowers == <<"a","b","c","d","e","f","g","h","i","j","k","l","m",
            "n","o","p","q","r","s","t","u","v","w","x","y","z">>

Uppers == <<"A","B","C","D","E","F","G","H","I","J","K","L","M",
            "N","O","P","Q","R","S","T","U","V","W","X","Y","Z">>

char_lower(c) ==
    IF \E i \in 1..Len(Uppers) : Uppers[i] = c
    THEN Lowers[CHOOSE i \in 1..Len(Uppers) : Uppers[i] = c]
    ELSE c

char_upper(c) ==
    IF \E i \in 1..Len(Lowers) : Lowers[i] = c
    THEN Uppers[CHOOSE i \in 1..Len(Lowers) : Lowers[i] = c]
    ELSE c

lower(s) == [i \in 1..Len(s) |-> char_lower(s[i])]

capitalize(s) == [i \in 1..Len(s) |-> IF i = 1 THEN char_upper(s[i]) ELSE char_lower(s[i])]

\* Python truthiness of an Optional[str]: None and '' are false.
Truthy(s) == s # None /\ s # <<>>

\* The filter values as get_contacts compares them (lines 25-30).
NormName(s) == IF Truthy(s) THEN capitalize(lower(s)) ELSE s

NormEmail(s) == IF Truthy(s) THEN lower(s) ELSE s

-----------------------------------------------------------------------------
(* Calendar dates: datetime(year, month, day), .date() comparison and      *)
(* timedelta(days = n).                                                    *)

IsLeap(y) == (y % 4 = 0 /\ y % 100 # 0) \/ y % 400 = 0

DaysInMonth(y, m) ==
    CASE m \in {1, 3, 5, 7, 8, 10, 12} -> 31
      [] m \in {4, 6, 9, 11} -> 30
      [] OTHER -> IF IsLeap(y) THEN 29 ELSE 28

\* datetime(year=y, month=m, day=d) raises ValueError unless this holds.
ValidDate(y, m, d) == m \in 1..12 /\ d \in 1..DaysInMonth(y, m)

NextDay(dt) ==
    IF dt[3] < DaysInMonth(dt[1], dt[2]) THEN <<dt[1], dt[2], dt[3] + 1>>
    ELSE IF dt[2] < 12 THEN <<dt[1], dt[2] + 1, 1>>
    ELSE <<dt[1] + 1, 1, 1>>

RECURSIVE AddDays(_, _)
AddDays(dt, n) == IF n = 0 THEN dt ELSE AddDays(NextDay(dt), n - 1)

DateLE(a, b) ==
    \/ a[1] < b[1]
    \/ a[1] = b[1] /\ a[2] < b[2]
    \/ a[1] = b[1] /\ a[2] = b[2] /\ a[3] <= b[3]

-----------------------------------------------------------------------------
(* Queries on the contacts table, a sequence of rows in insertion order.   *)

Min(a, b) == IF a <= b THEN a ELSE b

Rows(s) == {s[i] : i \in 1..Len(s)}

\* Faulty variant of Page: the offset is not applied.
PageOffsetIgnored(s, limit, offset) == SubSeq(s, 1, Min(limit, Len(s)))

\* query.limit(limit).offset(offset).all(): skip offset rows, take limit.
Page(s, limit, offset) == SubSeq(s, offset + 1, Min(offset + limit, Len(s)))

\* query.filter(Contact.user_id == user.id)
OwnedBy(s, user_id) == SelectSeq(s, LAMBDA r : r.user_id = user_id)

\* The orders in which a query without ORDER BY may deliver the set S.
Orderings(S) ==
    {f \in [1..Cardinality(S) -> S] :
        \A i, j \in 1..Cardinality(S) : i # j => f[i] # f[j]}

ListResult(rows) == [kind |-> "list", rows |-> rows]

ContactResult(row) == [kind |-> "contact", rows |-> <<row>>]

NoneResult == [kind |-> "None", rows |-> <<>>]

RaiseResult == [kind |-> "raise", rows |-> <<>>]

NoResult == [kind |-> "none", rows |-> <<>>]

-----------------------------------------------------------------------------
(* src/src/repository/contacts.py                                          *)

\* db.query(Contact).filter(and_(Contact.<field> == value, Contact.user_id == user.id))
FieldQuery(table, field, value, user_id) ==
    {r \in Rows(table) : r[field] = value /\ r.user_id = user_id}

\* Faulty variant of Union: the rows of both queries.
UnionIntersects(q1, q2) == q1 \cap q2

\* query.union(other): SQL UNION, the distinct rows of either query.
Union(q1, q2) == q1 \cup q2

\* The lists get_contacts may return: a UNION delivers its rows in no fixed order.
get_contacts(table, limit, offset, first_name_arg, last_name_arg, email_arg, user_id) ==
    LET first_name == NormName(first_name_arg)
        last_name == NormName(last_name_arg)
        email == NormEmail(email_arg)
        first_name_query == FieldQuery(table, "first_name", first_name, user_id)
        last_name_query == FieldQuery(table, "last_name", last_name, user_id)
        email_query == FieldQuery(table, "email", email, user_id)
        InTableOrder(q) == SelectSeq(table, LAMBDA r : r \in q)
    IN  IF Truthy(first_name) /\ Truthy(last_name) /\ Truthy(email)
        THEN {ListResult(o) :
                o \in Orderings(Union(Union(first_name_query, last_name_query), email_query))}
        ELSE IF Truthy(first_name) /\ Truthy(last_name)
        THEN {ListResult(o) : o \in Orderings(Union(first_name_query, last_name_query))}
        ELSE IF Truthy(first_name) /\ Truthy(email)
        THEN {ListResult(o) : o \in Orderings(Union(first_name_query, email_query))}
        ELSE IF Truthy(last_name) /\ Truthy(email)
        THEN {ListResult(o) : o \in Orderings(Union(last_name_query, email_query))}
        ELSE IF Truthy(first_name)
        THEN {ListResult(InTableOrder(first_name_query))}
        ELSE IF Truthy(last_name)
        THEN {ListResult(InTableOrder(last_name_query))}
        ELSE IF Truthy(email)
        THEN {ListResult(InTableOrder(email_query))}
        ELSE {ListResult(Page(table, limit, offset))}

\* Faulty variant of get_contact_by_id: it drops Contact.user_id == user.id.
get_contact_by_id_any_owner(table, contact_id, user_id) ==
    LET found == SelectSeq(table, LAMBDA r : r.id = contact_id)
    IN  IF found = <<>> THEN NoneResult ELSE ContactResult(found[1])

\* query.filter(and_(Contact.id == contact_id, Contact.user_id == user.id)).first()
get_contact_by_id(table, contact_id, user_id) ==
    LET found == SelectSeq(table, LAMBDA r : r.id = contact_id /\ r.user_id = user_id)
    IN  IF found = <<>> THEN NoneResult ELSE ContactResult(found[1])

\* The days after today that search_contacts_by_birthday looks ahead.
BirthdayPeriodDays == 7

\* Faulty variant of InPeriod: the upper end is exclusive.
InPeriodUpperExclusive(now, contact_birthday) ==
    /\ DateLE(now, contact_birthday)
    /\ DateLE(contact_birthday, AddDays(now, BirthdayPeriodDays))
    /\ contact_birthday # AddDays(now, BirthdayPeriodDays)

\* today.date() <= contact_birthday.date() <= (today + timedelta(days=7)).date()
InPeriod(now, contact_birthday) ==
    /\ DateLE(now, contact_birthday)
    /\ DateLE(contact_birthday, AddDays(now, BirthdayPeriodDays))

\* The loop of lines 85-90: datetime(...) raises ValueError on a day the
\* current year does not have, and the exception leaves the function.
search_contacts_by_birthday(table, now, limit, offset, user_id) ==
    LET current_year == now[1]
        page == Page(OwnedBy(table, user_id), limit, offset)
        Raises(c) == ~ValidDate(current_year, c.birthday[2], c.birthday[3])
        contact_birthday(c) == <<current_year, c.birthday[2], c.birthday[3]>>
    IN  IF \E i \in 1..Len(page) : Raises(page[i])
        THEN RaiseResult
        ELSE ListResult(SelectSeq(page, LAMBDA c : InPeriod(now, contact_birthday(c))))

\* Contact(**body.dict(), user_id=user.id); db.add; db.commit; db.refresh
create(table, new_id, body, user_id) ==
    LET contact == [id |-> new_id, user_id |-> user_id,
                    first_name |-> body.first_name, last_name |-> body.last_name,
                    email |-> body.email, phone_number |-> body.phone_number,
                    birthday |-> body.birthday, additional_data |-> body.additional_data]
    IN  [table |-> Append(table, contact), result |-> ContactResult(contact),
         committed |-> TRUE]

\* Faulty variant of Overwrite: additional_data is not assigned.
OverwriteKeepsAdditionalData(contact, body) ==
    [contact EXCEPT !.first_name = body.first_name, !.last_name = body.last_name,
                    !.email = body.email, !.phone_number = body.phone_number,
                    !.birthday = body.birthday]

\* The six assignments of update (lines 129-134).
Overwrite(contact, body) ==
    [contact EXCEPT !.first_name = body.first_name, !.last_name = body.last_name,
                    !.email = body.email, !.phone_number = body.phone_number,
                    !.birthday = body.birthday, !.additional_data = body.additional_data]

\* Faulty variant of update: db.commit() is outside the `if contact:` block.
update_commits_always(table, contact_id, body, user_id) ==
    LET found == get_contact_by_id(table, contact_id, user_id)
    IN  IF found.kind = "contact"
        THEN [table |-> [i \in 1..Len(table) |->
                            IF table[i].id = found.rows[1].id
                            THEN Overwrite(table[i], body) ELSE table[i]],
              result |-> ContactResult(Overwrite(found.rows[1], body)),
              committed |-> TRUE]
        ELSE [table |-> table, result |-> found, committed |-> TRUE]

update(table, contact_id, body, user_id) ==
    LET found == get_contact_by_id(table, contact_id, user_id)
    IN  IF found.kind = "contact"
        THEN [table |-> [i \in 1..Len(table) |->
                            IF table[i].id = found.rows[1].id
                            THEN Overwrite(table[i], body) ELSE table[i]],
              result |-> ContactResult(Overwrite(found.rows[1], body)),
              committed |-> TRUE]
        ELSE [table |-> table, result |-> found, committed |-> FALSE]

\* Faulty variant of remove: db.delete(contact) is missing.
remove_without_delete(table, contact_id, user_id) ==
    LET found == get_contact_by_id(table, contact_id, user_id)
    IN  [table |-> table, result |-> found, committed |-> found.kind = "contact"]

\* db.delete(contact); db.commit() when the row is found (lines 152-156).
remove(table, contact_id, user_id) ==
    LET found == get_contact_by_id(table, contact_id, user_id)
    IN  IF found.kind = "contact"
        THEN [table |-> SelectSeq(table, LAMBDA r : r.id # found.rows[1].id),
              result |-> found, committed |-> TRUE]
        ELSE [table |-> table, result |-> found, committed |-> FALSE]

-----------------------------------------------------------------------------
(* Inputs.                                                                 *)

\* User.id of the two registered users.
Users == {1, 2}

\* Query(default=10) of the list routes.
DefaultLimit == 10

Limits == {1, 2, DefaultLimit}

Offsets == {0, 1}

Phone == <<"+","3","8","0">>

Body(first_name, last_name, email, birthday) ==
    [first_name |-> first_name, last_name |-> last_name, email |-> email,
     phone_number |-> Phone, birthday |-> birthday, additional_data |-> <<>>]

\* ContactModel bodies: a capitalised name, a lower-case name stored as given,
\* an e-mail with an upper-case letter, a Feb 29 birthday.
Bodies ==
    { Body(<<"A","b","c">>, <<"X","y","z">>, <<"a","@","x",".","i","o">>, <<1976, 3, 7>>),
      [Body(<<"a","b","c">>, <<"U","v","w">>, <<"A","@","x",".","i","o">>, <<2000, 2, 29>>)
            EXCEPT !.phone_number = <<"+","4","8","0">>],
      [Body(<<"B","c","d">>, <<"X","y","z">>, <<"b","@","x",".","i","o">>, <<2024, 1, 1>>)
            EXCEPT !.additional_data = <<"v","i","p">>] }

FirstNameArgs == {None, <<>>, <<"a","b","c">>, <<"b","C","D">>}

LastNameArgs == {None, <<>>, <<"x","y","z">>}

EmailArgs == {None, <<>>, <<"A","@","X",".","i","o">>}

\* Stored birthdays of the birthday specification.
BirthdayArgs ==
    { <<2024, 1, 1>>, <<2024, 1, 7>>, <<1976, 1, 8>>, <<2000, 1, 9>>,
      <<2000, 2, 29>>, <<1999, 12, 31>> }

\* datetime.today() when the model starts.
StartDays == { <<2023, 12, 29>>, <<2024, 2, 21>> }

NoBody == Body(<<>>, <<>>, <<>>, <<0, 0, 0>>)

NoCall ==
    [op |-> "none", user |-> 0, contact_id |-> 0, body |-> NoBody, limit |-> 0,
     offset |-> 0, first_name |-> None, last_name |-> None, email |-> None]

\* No bearer token presented, and no answer of the token service or a route.
NoToken == [key |-> "", payload |-> [k \in {} |-> 0]]

NoResponse ==
    [op |-> "none", status |-> 0, detail |-> "", user |-> 0, sub |-> None,
     expires_delta |-> <<>>, contact_id |-> 0]

\* The token service and the routes are idle: utcnow, bearer and response
\* stay as they are in the specifications of the repository alone.
AuthIdle == utcnow = 0 /\ bearer = NoToken /\ response = NoResponse

\* The session of get_db before SessionLocal() is called.  pc is the place of
\* the generator; raised the exception that left the request and exc the one
\* in flight, with detail its message; before the table when the session was
\* opened and pending the table as the session holds it while that differs
\* from the table (<<>> when it holds no change); opens and closes
\* count SessionLocal() and db.close().
NoSession ==
    [pc |-> "none", raised |-> "none", exc |-> "none", detail |-> "",
     before |-> <<>>, pending |-> <<>>, rolled_back |-> FALSE,
     opens |-> 0, closes |-> 0]

\* The rate limiter's store is empty, no request is on record and no session
\* of get_db is followed step by step: redis, log and db stay as they are in
\* the specifications that serve a request in one step.
RequestIdle == redis = {} /\ log = <<>> /\ db = NoSession

-----------------------------------------------------------------------------
(* The requests.  Each runs in its own session (get_db): the repository    *)
(* function runs to completion, then CloseSession ends the request.        *)

TypeOK ==
    /\ next_id \in 1..(MaxId + MaxRows + 2)
    /\ elapsed \in 0..(MaxTicks + 1)
    /\ session \in {"closed", "open"}
    /\ committed \in BOOLEAN
    /\ result.kind \in {"none", "list", "contact", "None", "raise"}
    /\ \A i, j \in 1..Len(contacts) : i < j => contacts[i].id < contacts[j].id
    /\ \A i \in 1..Len(contacts) : contacts[i].id < next_id /\ contacts[i].user_id \in Users

Init ==
    /\ contacts = <<>>
    /\ next_id = 1
    /\ today \in StartDays
    /\ elapsed = 0
    /\ session = "closed"
    /\ committed = FALSE
    /\ call = NoCall
    /\ result = NoResult
    /\ AuthIdle
    /\ RequestIdle

GetContacts ==
    /\ session = "closed"
    /\ \E user \in Users, limit \in Limits, offset \in Offsets,
          first_name \in FirstNameArgs, last_name \in LastNameArgs, email \in EmailArgs :
        /\ call' = [NoCall EXCEPT !.op = "get_contacts", !.user = user, !.limit = limit,
                                  !.offset = offset, !.first_name = first_name,
                                  !.last_name = last_name, !.email = email]
        /\ result' \in get_contacts(contacts, limit, offset, first_name, last_name,
                                    email, user)
    /\ session' = "open"
    /\ committed' = FALSE
    /\ UNCHANGED <<contacts, next_id, today, elapsed, utcnow, bearer, response>>
    /\ UNCHANGED <<redis, log, db>>

GetContactById ==
    /\ session = "closed"
    /\ \E user \in Users, contact_id \in 1..MaxId :
        /\ call' = [NoCall EXCEPT !.op = "get_contact_by_id", !.user = user,
                                  !.contact_id = contact_id]
        /\ result' = get_contact_by_id(contacts, contact_id, user)
    /\ session' = "open"
    /\ committed' = FALSE
    /\ UNCHANGED <<contacts, next_id, today, elapsed, utcnow, bearer, response>>
    /\ UNCHANGED <<redis, log, db>>

SearchContactsByBirthday ==
    /\ session = "closed"
    /\ \E user \in Users, limit \in Limits, offset \in Offsets :
        /\ call' = [NoCall EXCEPT !.op = "search_contacts_by_birthday", !.user = user,
                                  !.limit = limit, !.offset = offset]
        /\ result' = search_contacts_by_birthday(contacts, today, limit, offset, user)
    /\ session' = "open"
    /\ committed' = FALSE
    /\ UNCHANGED <<contacts, next_id, today, elapsed, utcnow, bearer, response>>
    /\ UNCHANGED <<redis, log, db>>

Create ==
    /\ session = "closed"
    /\ next_id <= MaxId
    /\ \E user \in Users, body \in Bodies :
        LET out == create(contacts, next_id, body, user)
        IN  /\ call' = [NoCall EXCEPT !.op = "create", !.user = user, !.body = body]
            /\ contacts' = out.table
            /\ result' = out.result
            /\ committed' = out.committed
    /\ next_id' = next_id + 1
    /\ session' = "open"
    /\ UNCHANGED <<today, elapsed, utcnow, bearer, response>>
    /\ UNCHANGED <<redis, log, db>>

Update ==
    /\ session = "closed"
    /\ \E user \in Users, contact_id \in 1..MaxId, body \in Bodies :
        LET out == update(contacts, contact_id, body, user)
        IN  /\ call' = [NoCall EXCEPT !.op = "update", !.user = user,
                                      !.contact_id = contact_id, !.body = body]
            /\ contacts' = out.table
            /\ result' = out.result
            /\ committed' = out.committed
    /\ session' = "open"
    /\ UNCHANGED <<next_id, today, elapsed, utcnow, bearer, response>>
    /\ UNCHANGED <<redis, log, db>>

Remove ==
    /\ session = "closed"
    /\ \E user \in Users, contact_id \in 1..MaxId :
        LET out == remove(contacts, contact_id, user)
        IN  /\ call' = [NoCall EXCEPT !.op = "remove", !.user = user,
                                      !.contact_id = contact_id]
            /\ contacts' = out.table
            /\ result' = out.result
            /\ committed' = out.committed
    /\ session' = "open"
    /\ UNCHANGED <<next_id, today, elapsed, utcnow, bearer, response>>
    /\ UNCHANGED <<redis, log, db>>

\* get_db: finally db.close(); the response has been sent.
CloseSession ==
    /\ session = "open"
    /\ session' = "closed"
    /\ committed' = FALSE
    /\ call' = NoCall
    /\ result' = NoResult
    /\ UNCHANGED <<contacts, next_id, today, elapsed, utcnow, bearer, response>>
    /\ UNCHANGED <<redis, log, db>>

\* Midnight passes between two requests.
Tick ==
    /\ session = "closed"
    /\ elapsed < MaxTicks
    /\ today' = NextDay(today)
    /\ elapsed' = elapsed + 1
    /\ UNCHANGED <<contacts, next_id, session, committed, call, result, utcnow, bearer, response>>
    /\ UNCHANGED <<redis, log, db>>

Next ==
    \/ GetContacts
    \/ GetContactById
    \/ SearchContactsByBirthday
    \/ Create
    \/ Update
    \/ Remove
    \/ CloseSession

Spec == Init /\ [][Next]_vars

-----------------------------------------------------------------------------
(* The birthday search on its own: the table holds up to MaxRows contacts  *)
(* of user 1 with the birthdays of BirthdayArgs, and the days pass.        *)

BirthdayRow(id, birthday) ==
    create(<<>>, id, Body(<<"A","b","c">>, <<"X","y","z">>,
                          <<"a","@","x",".","i","o">>, birthday), 1).result.rows[1]

InitBirthday ==
    /\ \E n \in 0..MaxRows : \E birthdays \in [1..n -> BirthdayArgs] :
        /\ contacts = [i \in 1..n |-> BirthdayRow(i, birthdays[i])]
        /\ next_id = n + 1
    /\ today \in StartDays
    /\ elapsed = 0
    /\ session = "closed"
    /\ committed = FALSE
    /\ call = NoCall
    /\ result = NoResult
    /\ AuthIdle
    /\ RequestIdle

NextBirthday ==
    \/ SearchContactsByBirthday
    \/ Tick
    \/ CloseSession

SpecBirthday == InitBirthday /\ [][NextBirthday]_vars

-----------------------------------------------------------------------------
(* Properties.  In a state with session = "open" the variables call and    *)
(* result hold the request just served; a read leaves contacts as the      *)
(* table it read.                                                          *)

Served(op) == session = "open" /\ call.op = op

ResultRows == Rows(result.rows)

\* C1: no repository read invoked with owner B (get_contacts with any
\* filters or none, get_contact_by_id, search_contacts_by_birthday) returns a
\* contact whose user_id is another user's id.
C1_ReadsReturnOnlyOwnRows ==
    (Served("get_contacts") \/ Served("get_contact_by_id")
        \/ Served("search_contacts_by_birthday"))
    => \A r \in ResultRows : r.user_id = call.user

\* The reads that do filter on the owner keep to the owner's rows.
C1_FilteredReadsReturnOnlyOwnRows ==
    (\/ Served("get_contact_by_id")
     \/ Served("search_contacts_by_birthday")
     \/ Served("get_contacts")
        /\ (Truthy(call.first_name) \/ Truthy(call.last_name) \/ Truthy(call.email)))
    => \A r \in ResultRows : r.user_id = call.user

\* C2: update and remove invoked by user B on the id of a contact owned by
\* another user A return None and leave A's row in the table, unmodified.
C2_WritesLeaveOtherOwnersRows ==
    [][(session = "closed" /\ call'.op \in {"update", "remove"})
        => \A i \in 1..Len(contacts) :
            (contacts[i].id = call'.contact_id /\ contacts[i].user_id # call'.user)
            => /\ result' = NoneResult
               /\ \E j \in 1..Len(contacts') : contacts'[j] = contacts[i]]_vars

C2_Witness ==
    /\ Served("update")
    /\ result = NoneResult
    /\ \E i \in 1..Len(contacts) :
        /\ contacts[i].id = call.contact_id
        /\ contacts[i].user_id # call.user
        /\ Overwrite(contacts[i], call.body) # contacts[i]

\* The filters of the served get_contacts call that are non-empty.
Supplied == {f \in {"first_name", "last_name", "email"} : Truthy(call[f])}

\* The value a supplied filter is compared as: names capitalised, e-mail lower-cased.
Normalised(f) == IF f = "email" THEN lower(call[f]) ELSE capitalize(lower(call[f]))

C4_UnfilteredPage ==
    (Served("get_contacts") /\ Supplied = {})
    => /\ result.kind = "list"
       /\ Len(result.rows) <= call.limit
       /\ Len(result.rows) = IF Len(contacts) - call.offset < 0 THEN 0
                             ELSE Min(call.limit, Len(contacts) - call.offset)
       /\ \A i \in 1..Len(result.rows) : result.rows[i] = contacts[call.offset + i]
       /\ (contacts = <<>> => result.rows = <<>>)

\* A page that starts after the first row and stops at the limit.
C4_Witness ==
    /\ Served("get_contacts")
    /\ Supplied = {}
    /\ call.offset = 1
    /\ call.limit = 1
    /\ Len(contacts) >= 2
    /\ result.rows = <<contacts[2]>>

\* C5: a first_name (last_name) filter that equals a stored first_name
\* (last_name) of the owner ignoring letter case returns that contact.
C5_NameFiltersIgnoreCase ==
    Served("get_contacts")
    => \A r \in Rows(contacts) :
        (/\ r.user_id = call.user
         /\ \E f \in Supplied \ {"email"} : lower(call[f]) = lower(r[f]))
        => r \in ResultRows

\* What the code does instead: the match is with the capitalised filter.
C5_NameFiltersMatchCapitalised ==
    Served("get_contacts")
    => \A r \in Rows(contacts) :
        (/\ r.user_id = call.user
         /\ \E f \in Supplied \ {"email"} : capitalize(lower(call[f])) = r[f])
        => r \in ResultRows

\* The page the served search_contacts_by_birthday call fetched.
FetchedPage == Page(OwnedBy(contacts, call.user), call.limit, call.offset)

\* A contact's stored month and day on the current year.
Recurring(c) == <<today[1], c.birthday[2], c.birthday[3]>>

IsDate(r) == ValidDate(r[1], r[2], r[3])

WithinWeek(r) == IsDate(r) /\ DateLE(today, r) /\ DateLE(r, AddDays(today, 7))

\* C6: search_contacts_by_birthday keeps a contact of the fetched page if and
\* only if its month/day on the current year is a date r with
\* today <= r <= today + 7 days.
C6_KeptIffWithinWeek ==
    Served("search_contacts_by_birthday")
    => \A i \in 1..Len(FetchedPage) :
        FetchedPage[i] \in ResultRows <=> WithinWeek(Recurring(FetchedPage[i]))

\* The same, for the calls that return: C6 fails only where C9 does.
C6_KeptIffWithinWeekUnlessRaised ==
    (Served("search_contacts_by_birthday") /\ result.kind # "raise")
    => /\ result.kind = "list"
       /\ \A i \in 1..Len(FetchedPage) :
            FetchedPage[i] \in ResultRows <=> WithinWeek(Recurring(FetchedPage[i]))

\* The months and days of the contacts of the fetched page.
PageMonthDays == {<<FetchedPage[i].birthday[2], FetchedPage[i].birthday[3]>> :
                    i \in 1..Len(FetchedPage)}

\* today = 2024-01-01 and the page holds three contacts, with birthdays on
\* 01-01, 01-07 and 01-08.
C7_Case ==
    /\ Served("search_contacts_by_birthday")
    /\ today = <<2024, 1, 1>>
    /\ Len(FetchedPage) = 3
    /\ PageMonthDays = {<<1, 1>>, <<1, 7>>, <<1, 8>>}

\* C7 as stated: in that case exactly the contacts of 01-01 and 01-07 are
\* returned, the one of 01-08 is not.
C7_EighthOfJanuaryExcluded ==
    C7_Case
    => ResultRows = {c \in Rows(FetchedPage) : c.birthday[3] \in {1, 7}}

\* C7 as amended: in that case all three contacts are returned, 01-08 being
\* today + 7 days, the inclusive end of the period.
C7_EighthOfJanuaryIncluded ==
    C7_Case => result = ListResult(FetchedPage)

C7_Witness == C7_Case /\ Len(result.rows) = 3

\* C8: a page contact whose stored birthday is the date today + i days,
\* 0 <= i <= 7, is returned, and one whose stored birthday is today + 8 days
\* is not, also when that date is in the following year.
C8_NextSevenDays ==
    Served("search_contacts_by_birthday")
    => \A k \in 1..Len(FetchedPage) :
        /\ (\E i \in 0..7 : FetchedPage[k].birthday = AddDays(today, i))
            => FetchedPage[k] \in ResultRows
        /\ FetchedPage[k].birthday = AddDays(today, 8)
            => FetchedPage[k] \notin ResultRows

\* The same while today + 7 days is still in the current year and no call raises.
C8_NextSevenDaysWithinYear ==
    (/\ Served("search_contacts_by_birthday")
     /\ AddDays(today, 7)[1] = today[1]
     /\ result.kind # "raise")
    => \A k \in 1..Len(FetchedPage) :
        /\ (\E i \in 0..7 : FetchedPage[k].birthday = AddDays(today, i))
            => FetchedPage[k] \in ResultRows
        /\ FetchedPage[k].birthday = AddDays(today, 8)
            => FetchedPage[k] \notin ResultRows

\* C9: search_contacts_by_birthday never raises: with a stored Feb 29 and a
\* current year that is no leap year it still returns a list.
C9_NeverRaises ==
    Served("search_contacts_by_birthday") => result.kind = "list"

\* C10: update on a (contact_id, owner) pair that matches no row returns None,
\* changes no row and issues no commit.
C10_UpdateOfMissingPairWritesNothing ==
    [][(/\ session = "closed"
        /\ call'.op = "update"
        /\ ~\E i \in 1..Len(contacts) :
                contacts[i].id = call'.contact_id /\ contacts[i].user_id = call'.user)
        => /\ result' = NoneResult
           /\ contacts' = contacts
           /\ committed' = FALSE]_vars

C10_Witness ==
    /\ Served("update")
    /\ result = NoneResult
    /\ committed = FALSE
    /\ contacts # <<>>
    /\ \A i \in 1..Len(contacts) : contacts[i].id # call.contact_id

\* The position in the table of the row with this id and owner, if any.
Matching(table, contact_id, user_id) ==
    {i \in 1..Len(table) : table[i].id = contact_id /\ table[i].user_id = user_id}

\* C11: update on an existing (contact_id, owner) pair commits, sets the six
\* mutable fields of that row to the body's values, keeps its id and user_id,
\* leaves every other row as it was and returns the updated row.
C11_UpdateReplacesAllFields ==
    [][(/\ session = "closed"
        /\ call'.op = "update"
        /\ Matching(contacts, call'.contact_id, call'.user) # {})
        => /\ committed' = TRUE
           /\ Len(contacts') = Len(contacts)
           /\ \A i \in 1..Len(contacts) :
                IF i \in Matching(contacts, call'.contact_id, call'.user)
                THEN /\ contacts'[i].first_name = call'.body.first_name
                     /\ contacts'[i].last_name = call'.body.last_name
                     /\ contacts'[i].email = call'.body.email
                     /\ contacts'[i].phone_number = call'.body.phone_number
                     /\ contacts'[i].birthday = call'.body.birthday
                     /\ contacts'[i].additional_data = call'.body.additional_data
                     /\ contacts'[i].id = contacts[i].id
                     /\ contacts'[i].user_id = contacts[i].user_id
                     /\ result' = ContactResult(contacts'[i])
                ELSE contacts'[i] = contacts[i]]_vars

\* An update that found its row, with a second row beside it.
C11_Witness ==
    /\ Served("update")
    /\ result.kind = "contact"
    /\ committed = TRUE
    /\ Len(contacts) = 2
    /\ result.rows[1] \in Rows(contacts)
    /\ result.rows[1].additional_data = <<"v","i","p">>
    /\ result.rows[1].additional_data = call.body.additional_data

\* No row of the table has this id and owner.
Absent(table, contact_id, user_id) == Matching(table, contact_id, user_id) = {}

\* C12: remove on an existing (contact_id, owner) pair returns the row as it
\* was and deletes it; from then on, until a contact is created,
\* get_contact_by_id for that id and owner returns None; remove on a missing
\* pair returns None and deletes nothing.
C12_RemoveThenAbsent ==
    /\ [][(session = "closed" /\ call'.op = "remove")
            => IF Absent(contacts, call'.contact_id, call'.user)
               THEN result' = NoneResult /\ contacts' = contacts
               ELSE \E i \in Matching(contacts, call'.contact_id, call'.user) :
                        /\ result' = ContactResult(contacts[i])
                        /\ contacts' = SubSeq(contacts, 1, i - 1)
                                        \o SubSeq(contacts, i + 1, Len(contacts))
                        /\ Absent(contacts', call'.contact_id, call'.user)]_vars
    /\ [][\A contact_id \in 1..MaxId, user \in Users :
            (Absent(contacts, contact_id, user) /\ call'.op # "create")
            => Absent(contacts', contact_id, user)]_vars
    /\ [][(session = "closed" /\ call'.op = "get_contact_by_id"
            /\ Absent(contacts, call'.contact_id, call'.user))
            => result' = NoneResult]_vars

\* get_contact_by_id returns None for the id of a row that was created and
\* has been removed.
C12_Witness ==
    /\ Served("get_contact_by_id")
    /\ result = NoneResult
    /\ call.contact_id < next_id
    /\ \A i \in 1..Len(contacts) : contacts[i].id # call.contact_id

-----------------------------------------------------------------------------
(* Paging of get_contacts.                                                 *)

\* The number of contacts the served get_contacts call selects before paging:
\* the owner's contacts matching a supplied filter, or the whole table when no
\* filter is supplied.
MatchCount ==
    IF Supplied = {}
    THEN Len(contacts)
    ELSE Cardinality({i \in 1..Len(contacts) :
                        /\ contacts[i].user_id = call.user
                        /\ \E f \in Supplied : contacts[i][f] = Normalised(f)})

\* C18: for every combination of filters get_contacts returns at most limit
\* contacts and skips the first offset matching contacts.
C18_LimitAndOffsetApplyToEveryQuery ==
    Served("get_contacts")
    => /\ Len(result.rows) <= call.limit
       /\ Len(result.rows) <= IF MatchCount > call.offset
                              THEN MatchCount - call.offset ELSE 0

\* What the code does instead: limit and offset bound the unfiltered query
\* alone, and a filtered query returns every match.
C18_FilteredQueriesReturnEveryMatch ==
    Served("get_contacts")
    => IF Supplied = {}
       THEN /\ Len(result.rows) <= call.limit
            /\ Len(result.rows) <= IF MatchCount > call.offset
                                   THEN MatchCount - call.offset ELSE 0
       ELSE Len(result.rows) = MatchCount

-----------------------------------------------------------------------------
(* Paging of search_contacts_by_birthday.                                  *)

\* The contacts of the fetched page whose recurring birthday lies in the
\* window, in page order.
PageInWindow == SelectSeq(FetchedPage, LAMBDA c : WithinWeek(Recurring(c)))

\* C19: search_contacts_by_birthday pages before it filters: the result is
\* exactly the subsequence of the owner's page (the owner's contacts from
\* position offset, at most limit of them) whose recurring birthday lies in
\* the window, in the page's order.
C19_ResultIsWindowOfPage ==
    Served("search_contacts_by_birthday") => result = ListResult(PageInWindow)

\* The same, for the calls that return: C19 fails only where C9 does.
C19_ResultIsWindowOfPageUnlessRaised ==
    (Served("search_contacts_by_birthday") /\ result.kind # "raise")
    => result = ListResult(PageInWindow)

\* A returning call that leaves out a match beyond its page and returns fewer
\* than limit contacts.
C19_MatchOutsidePage ==
    /\ Served("search_contacts_by_birthday")
    /\ result.kind = "list"
    /\ Len(result.rows) < call.limit
    /\ \E i \in 1..Len(contacts) :
        /\ contacts[i].user_id = call.user
        /\ WithinWeek(Recurring(contacts[i]))
        /\ contacts[i] \notin ResultRows

-----------------------------------------------------------------------------
(* The token service (class Auth).  Time is in whole seconds, as the exp   *)
(* and iat claims of a token are.  A token is [key, payload]: the key it   *)
(* is signed with and its claims, a function on the names of the claims    *)
(* present.  An Optional[float] argument is <<>> for None and <<d>> for    *)
(* the number d.  The answer of the service is a record: status 200 with   *)
(* the resolved user's id or the subject, or the status and detail of the  *)
(* HTTPException raised, or status 500 for any other exception.            *)

\* settings.jwt_secret_key.
SECRET_KEY == "secret"

\* timedelta(minutes=60), timedelta(days=7) and timedelta(days=1), in seconds.
AccessTokenDefaultSeconds == 3600

RefreshTokenDefaultSeconds == 604800

EmailTokenSeconds == 86400

HTTP_200_OK == 200

HTTP_401_UNAUTHORIZED == 401

HTTP_403_FORBIDDEN == 403

HTTP_500_INTERNAL_SERVER_ERROR == 500

\* The two messages of decode_refresh_token, by the names of the constants of
\* src.conf.messages the code passes as detail.
ERROR_SCOPE_TOKEN == "ERROR_SCOPE_TOKEN"

ERROR_VALIDATE_CREDENTIALS == "ERROR_VALIDATE_CREDENTIALS"

\* The users table: id, e-mail (unique) and role of each account.
UserTable ==
    { [id |-> 1, email |-> <<"a","@","m">>, role |-> "admin"],
      [id |-> 2, email |-> <<"u","@","m">>, role |-> "user"],
      [id |-> 3, email |-> <<"m","@","m">>, role |-> "moderator"] }

\* repository_users.get_user_by_email: <<the user>> with that e-mail, or <<>>
\* for None.
get_user_by_email(email, users) ==
    IF \E u \in users : u.email = email
    THEN <<CHOOSE u \in users : u.email = email>>
    ELSE <<>>

\* dict.update: the claims of u replace and extend those of d.
DictUpdate(d, u) ==
    [k \in DOMAIN d \cup DOMAIN u |-> IF k \in DOMAIN u THEN u[k] ELSE d[k]]

jwt_encode(claims, key) == [key |-> key, payload |-> claims]

\* jwt.decode raises JWTError on a signature made with another key, on an exp
\* claim in the past (exp < now) and on a sub claim that is not a string.
JWTError(token, key, now) ==
    \/ token.key # key
    \/ "exp" \in DOMAIN token.payload /\ token.payload["exp"] < now
    \/ "sub" \in DOMAIN token.payload /\ token.payload["sub"] = None

\* Faulty variant of create_access_token: the scope tag is misspelt.
create_access_token_wrong_scope(data, expires_delta, now) ==
    LET expire == IF expires_delta # <<>> /\ expires_delta[1] # 0
                  THEN now + expires_delta[1]
                  ELSE now + AccessTokenDefaultSeconds
    IN  jwt_encode(DictUpdate(data, [iat |-> now, exp |-> expire, scope |-> "access"]),
                   SECRET_KEY)

\* `if expires_delta:` is false for None and for 0.
create_access_token(data, expires_delta, now) ==
    LET expire == IF expires_delta # <<>> /\ expires_delta[1] # 0
                  THEN now + expires_delta[1]
                  ELSE now + AccessTokenDefaultSeconds
    IN  jwt_encode(DictUpdate(data, [iat |-> now, exp |-> expire,
                                     scope |-> "access_token"]),
                   SECRET_KEY)

create_refresh_token(data, expires_delta, now) ==
    LET expire == IF expires_delta # <<>> /\ expires_delta[1] # 0
                  THEN now + expires_delta[1]
                  ELSE now + RefreshTokenDefaultSeconds
    IN  jwt_encode(DictUpdate(data, [iat |-> now, exp |-> expire,
                                     scope |-> "refresh_token"]),
                   SECRET_KEY)

create_email_token(data, now) ==
    jwt_encode(DictUpdate(data, [iat |-> now, exp |-> now + EmailTokenSeconds]),
               SECRET_KEY)

Answer(op, status, detail, user, sub) ==
    [op |-> op, status |-> status, detail |-> detail, user |-> user, sub |-> sub,
     expires_delta |-> <<>>, contact_id |-> 0]

\* payload['scope'] and payload['sub'] raise KeyError on a missing claim;
\* KeyError is not a JWTError and leaves the function.
decode_refresh_token(refresh_token, now) ==
    LET payload == refresh_token.payload
        Raise(status, detail) == Answer("decode_refresh_token", status, detail, 0, None)
    IN  IF JWTError(refresh_token, SECRET_KEY, now)
        THEN Raise(HTTP_401_UNAUTHORIZED, ERROR_VALIDATE_CREDENTIALS)
        ELSE IF "scope" \notin DOMAIN payload
        THEN Raise(HTTP_500_INTERNAL_SERVER_ERROR, "KeyError")
        ELSE IF payload["scope"] = "refresh_token"
        THEN IF "sub" \notin DOMAIN payload
             THEN Raise(HTTP_500_INTERNAL_SERVER_ERROR, "KeyError")
             ELSE Answer("decode_refresh_token", HTTP_200_OK, "", 0, payload["sub"])
        ELSE Raise(HTTP_401_UNAUTHORIZED, ERROR_SCOPE_TOKEN)

\* Faulty variant of get_current_user: the scope claim is not looked at.
get_current_user_any_scope(token, now, users) ==
    LET payload == token.payload
        Raise(status, detail) == Answer("get_current_user", status, detail, 0, None)
        credentials_exception ==
            Raise(HTTP_401_UNAUTHORIZED, "Could not validate credentials")
    IN  IF JWTError(token, SECRET_KEY, now)
        THEN credentials_exception
        ELSE IF "sub" \notin DOMAIN payload
        THEN Raise(HTTP_500_INTERNAL_SERVER_ERROR, "KeyError")
        ELSE LET user == get_user_by_email(payload["sub"], users)
             IN  IF user = <<>>
                 THEN credentials_exception
                 ELSE Answer("get_current_user", HTTP_200_OK, "", user[1].id,
                             payload["sub"])

get_current_user(token, now, users) ==
    LET payload == token.payload
        Raise(status, detail) == Answer("get_current_user", status, detail, 0, None)
        credentials_exception ==
            Raise(HTTP_401_UNAUTHORIZED, "Could not validate credentials")
    IN  IF JWTError(token, SECRET_KEY, now)
        THEN credentials_exception
        ELSE IF "scope" \notin DOMAIN payload
        THEN Raise(HTTP_500_INTERNAL_SERVER_ERROR, "KeyError")
        ELSE IF payload["scope"] # "access_token"
        THEN credentials_exception
        ELSE IF "sub" \notin DOMAIN payload
        THEN Raise(HTTP_500_INTERNAL_SERVER_ERROR, "KeyError")
        ELSE IF payload["sub"] = None
        THEN credentials_exception
        ELSE LET user == get_user_by_email(payload["sub"], users)
             IN  IF user = <<>>
                 THEN credentials_exception
                 ELSE Answer("get_current_user", HTTP_200_OK, "", user[1].id,
                             payload["sub"])

-----------------------------------------------------------------------------
(* The token service on its own: tokens are issued at the current time,    *)
(* the clock advances, and the bearer token is handed to get_current_user  *)
(* or decode_refresh_token.  response holds the last call of the service   *)
(* on the bearer token at the current time.                                *)

NoClaims == [k \in {} |-> 0]

\* The data argument of the create functions: a subject that is a user's
\* e-mail, an e-mail of no user, None, or no subject at all.
TokenData ==
    { [sub |-> e] : e \in {<<"a","@","m">>, <<"u","@","m">>, <<"x","@","m">>, None} }
        \cup {NoClaims}

\* The expires_delta argument: None, 0 and 60 seconds.
ExpiresDeltas == {<<>>, <<0>>, <<60>>}

\* Seconds that pass between two calls.
ClockSteps == {30, AccessTokenDefaultSeconds, RefreshTokenDefaultSeconds}

Issued(op, expires_delta) ==
    [NoResponse EXCEPT !.op = op, !.expires_delta = expires_delta]

CreateAccessToken ==
    /\ \E data \in TokenData, expires_delta \in ExpiresDeltas :
        /\ bearer' = create_access_token(data, expires_delta, utcnow)
        /\ response' = Issued("create_access_token", expires_delta)
    /\ UNCHANGED <<contacts, next_id, today, elapsed, session, committed, call, result,
                   utcnow>>
    /\ UNCHANGED <<redis, log, db>>

CreateRefreshToken ==
    /\ \E data \in TokenData, expires_delta \in ExpiresDeltas :
        /\ bearer' = create_refresh_token(data, expires_delta, utcnow)
        /\ response' = Issued("create_refresh_token", expires_delta)
    /\ UNCHANGED <<contacts, next_id, today, elapsed, session, committed, call, result,
                   utcnow>>
    /\ UNCHANGED <<redis, log, db>>

CreateEmailToken ==
    /\ \E data \in TokenData :
        /\ bearer' = create_email_token(data, utcnow)
        /\ response' = Issued("create_email_token", <<>>)
    /\ UNCHANGED <<contacts, next_id, today, elapsed, session, committed, call, result,
                   utcnow>>
    /\ UNCHANGED <<redis, log, db>>

\* A client presents the claims of its token under a signature of its own.
PresentForgedToken ==
    /\ bearer.key = SECRET_KEY
    /\ bearer' = jwt_encode(bearer.payload, "forged")
    /\ response' = NoResponse
    /\ UNCHANGED <<contacts, next_id, today, elapsed, session, committed, call, result,
                   utcnow>>
    /\ UNCHANGED <<redis, log, db>>

AdvanceClock ==
    /\ elapsed < MaxTicks
    /\ \E d \in ClockSteps : utcnow' = utcnow + d
    /\ elapsed' = elapsed + 1
    /\ response' = NoResponse
    /\ UNCHANGED <<contacts, next_id, today, session, committed, call, result, bearer>>
    /\ UNCHANGED <<redis, log, db>>

GetCurrentUser ==
    /\ bearer # NoToken
    /\ response' = get_current_user(bearer, utcnow, UserTable)
    /\ UNCHANGED <<contacts, next_id, today, elapsed, session, committed, call, result,
                   utcnow, bearer>>
    /\ UNCHANGED <<redis, log, db>>

DecodeRefreshToken ==
    /\ bearer # NoToken
    /\ response' = decode_refresh_token(bearer, utcnow)
    /\ UNCHANGED <<contacts, next_id, today, elapsed, session, committed, call, result,
                   utcnow, bearer>>
    /\ UNCHANGED <<redis, log, db>>

InitAuth ==
    /\ contacts = <<>>
    /\ next_id = 1
    /\ today \in StartDays
    /\ elapsed = 0
    /\ session = "closed"
    /\ committed = FALSE
    /\ call = NoCall
    /\ result = NoResult
    /\ AuthIdle
    /\ RequestIdle

NextAuth ==
    \/ CreateAccessToken
    \/ CreateRefreshToken
    \/ CreateEmailToken
    \/ PresentForgedToken
    \/ AdvanceClock
    \/ GetCurrentUser
    \/ DecodeRefreshToken

SpecAuth == InitAuth /\ [][NextAuth]_vars

-----------------------------------------------------------------------------
(* Properties of the token service.  In a state with response.op the name  *)
(* of a function of the service, response is the answer of that function   *)
(* on the bearer token at the time utcnow.                                 *)

Answered(op) == response.op = op

\* The bearer token is what the named create function returned, at the time
\* of the token's iat claim, for some expires_delta.
IssuedAccessToken(data) ==
    /\ "iat" \in DOMAIN bearer.payload
    /\ \E expires_delta \in ExpiresDeltas :
        bearer = create_access_token(data, expires_delta, bearer.payload["iat"])

IssuedRefreshToken(data) ==
    /\ "iat" \in DOMAIN bearer.payload
    /\ \E expires_delta \in ExpiresDeltas :
        bearer = create_refresh_token(data, expires_delta, bearer.payload["iat"])

\* C13: for every subject that is the e-mail of an existing user and every
\* expires_delta, get_current_user on the token create_access_token issued
\* for that subject returns that user at any time before the token's expiry
\* and fails with 401 at any time after it.
C13_AccessTokenRoundTrip ==
    \A u \in UserTable :
        (Answered("get_current_user") /\ IssuedAccessToken([sub |-> u.email]))
        => /\ utcnow < bearer.payload["exp"]
                => response.status = 200 /\ response.user = u.id
           /\ utcnow > bearer.payload["exp"] => response.status = 401

\* The token of the user-role account, issued with expires_delta = 60, is
\* handed back after it has expired.
C13_Witness ==
    /\ Answered("get_current_user")
    /\ IssuedAccessToken([sub |-> <<"u","@","m">>])
    /\ bearer.payload["exp"] = bearer.payload["iat"] + 60
    /\ utcnow > bearer.payload["exp"]
    /\ response.status = 401

\* The same token handed back before its expiry resolves to account 2.
C13_ReturnsUserBeforeExpiry ==
    /\ Answered("get_current_user")
    /\ IssuedAccessToken([sub |-> <<"u","@","m">>])
    /\ bearer.payload["iat"] < utcnow
    /\ utcnow < bearer.payload["exp"]
    /\ response.status = 200
    /\ response.user = 2


\* C14: a token create_refresh_token issued always fails get_current_user
\* with 401, and a token create_access_token issued always fails
\* decode_refresh_token with 401 and the wrong-scope message.
C14_NoTokenTypeConfusion ==
    \A data \in TokenData :
        /\ (Answered("get_current_user") /\ IssuedRefreshToken(data))
            => response.status = 401
        /\ (Answered("decode_refresh_token") /\ IssuedAccessToken(data))
            => response.status = 401 /\ response.detail = ERROR_SCOPE_TOKEN

\* jwt.decode accepts the bearer token at the time utcnow: not expired, and a
\* subject claim, if any, that is a string.
Decodable ==
    /\ utcnow <= bearer.payload["exp"]
    /\ "sub" \in DOMAIN bearer.payload => bearer.payload["sub"] # None

\* C14 as the code has it: both fail with 401 at any time, and the message of
\* decode_refresh_token on an access token is the wrong-scope one exactly
\* while jwt.decode accepts the token, and the invalid-credentials one after.
C14_NoTokenTypeConfusionWhileDecodable ==
    \A data \in TokenData :
        /\ (Answered("get_current_user") /\ IssuedRefreshToken(data))
            => response.status = 401
        /\ (Answered("decode_refresh_token") /\ IssuedAccessToken(data))
            => /\ response.status = 401
               /\ response.detail = IF Decodable THEN ERROR_SCOPE_TOKEN
                                    ELSE ERROR_VALIDATE_CREDENTIALS

\* An unexpired access token of an existing user is refused by
\* decode_refresh_token with the wrong-scope message.
C14_Witness ==
    /\ Answered("decode_refresh_token")
    /\ IssuedAccessToken([sub |-> <<"a","@","m">>])
    /\ utcnow < bearer.payload["exp"]
    /\ response.status = 401
    /\ response.detail = ERROR_SCOPE_TOKEN

\* An unexpired refresh token of an existing user is refused by
\* get_current_user.
C14_RefreshTokenRefused ==
    /\ Answered("get_current_user")
    /\ IssuedRefreshToken([sub |-> <<"a","@","m">>])
    /\ utcnow < bearer.payload["exp"]
    /\ response.status = 401

\* An expired access token is refused by decode_refresh_token with the
\* invalid-credentials message.
C14_ExpiredAccessTokenRefused ==
    /\ Answered("decode_refresh_token")
    /\ IssuedAccessToken([sub |-> <<"a","@","m">>])
    /\ utcnow > bearer.payload["exp"]
    /\ response.status = 401
    /\ response.detail = ERROR_VALIDATE_CREDENTIALS


\* The subject claim of the bearer token is the e-mail of no user.
SubjectOfNoUser ==
    /\ "sub" \in DOMAIN bearer.payload
    /\ \A u \in UserTable : u.email # bearer.payload["sub"]

\* The bearer token is signed with the service's key and its scope claim is
\* not access_token or missing, or its subject claim is missing.
SignedButNoAccessClaims ==
    /\ bearer.key = SECRET_KEY
    /\ \/ "scope" \notin DOMAIN bearer.payload
       \/ bearer.payload["scope"] # "access_token"
       \/ "sub" \notin DOMAIN bearer.payload

\* C15: get_current_user fails with 401, and with no other error, on every
\* correctly signed token whose scope claim is not access_token (or is
\* missing, as in a token of create_email_token) or whose subject claim is
\* missing, and on every token whose subject is the e-mail of no user.
C15_UnauthorizedAndNothingElse ==
    (Answered("get_current_user") /\ (SignedButNoAccessClaims \/ SubjectOfNoUser))
    => response.status = 401

\* What the code does instead: on a token jwt.decode accepts, a missing scope
\* claim, or a missing subject claim under scope access_token, is a KeyError
\* that leaves get_current_user (status 500); every other such token gets 401.
C15_KeyErrorOnMissingClaim ==
    (Answered("get_current_user") /\ (SignedButNoAccessClaims \/ SubjectOfNoUser))
    => response.status =
         IF /\ bearer.key = SECRET_KEY
            /\ Decodable
            /\ \/ "scope" \notin DOMAIN bearer.payload
               \/ /\ bearer.payload["scope"] = "access_token"
                  /\ "sub" \notin DOMAIN bearer.payload
         THEN 500 ELSE 401

\* C17: for every given expires_delta (a non-negative number of seconds)
\* create_access_token and create_refresh_token issue a token that expires
\* at the issue time plus exactly that many seconds; with none given the
\* expiry is the issue time + 60 minutes, or + 7 days for a refresh token.
C17_ExpiryIsIssueTimePlusOverride ==
    (Answered("create_access_token") \/ Answered("create_refresh_token"))
    => bearer.payload["exp"] = bearer.payload["iat"] +
         (IF response.expires_delta # <<>> THEN response.expires_delta[1]
          ELSE IF Answered("create_access_token") THEN 60 * 60
          ELSE 7 * 24 * 60 * 60)

\* What the code does instead: expires_delta = 0 gets the default lifetime.
C17_ZeroOverrideGetsDefault ==
    (Answered("create_access_token") \/ Answered("create_refresh_token"))
    => /\ bearer.payload["iat"] = utcnow
       /\ bearer.payload["exp"] = bearer.payload["iat"] +
            (IF response.expires_delta \notin {<<>>, <<0>>}
             THEN response.expires_delta[1]
             ELSE IF Answered("create_access_token") THEN 60 * 60
             ELSE 7 * 24 * 60 * 60)

-----------------------------------------------------------------------------
(* The role policy and the contact routes.  A request carries a bearer     *)
(* token.  FastAPI resolves the dependencies of a route before it calls    *)
(* the route function: oauth2_scheme, get_current_user, then the route's   *)
(* RolesAccess object on the user get_current_user returned.  The route    *)
(* function calls one function of the contact repository and turns an      *)
(* empty outcome into 404.  In a state with session = "open", bearer is    *)
(* the token of the request served, response the answer sent (with the     *)
(* contact_id of the request's path, if it has one), and call and result   *)
(* the repository call made, if any (NoCall if none).  The rate limiter    *)
(* of the read and create routes is not part of this model.                *)

HTTP_201_CREATED == 201

HTTP_204_NO_CONTENT == 204

HTTP_404_NOT_FOUND == 404

access_get == {"admin", "moderator", "user"}

access_create == {"admin", "moderator"}

access_update == {"admin", "moderator"}

access_delete == {"admin"}

\* Faulty variant of RolesAccess: every role passes.
RolesAccessAllowsAll(allowed_roles, current_user) == TRUE

\* RolesAccess.__call__: TRUE when it returns, FALSE when it raises 403.
RolesAccess(allowed_roles, current_user) == current_user.role \in allowed_roles

\* The user of a successful get_current_user.
CurrentUser(answer) == CHOOSE u \in UserTable : u.id = answer.user

\* The dependencies of a route: status 200 with the user when all return, or
\* the answer of the one that raised.
Dependencies(route, allowed_roles, token, now) ==
    IF token = NoToken
    THEN Answer(route, HTTP_401_UNAUTHORIZED, "Not authenticated", 0, None)
    ELSE LET answer == get_current_user(token, now, UserTable)
         IN  IF answer.status # HTTP_200_OK
             THEN [answer EXCEPT !.op = route]
             ELSE IF ~RolesAccess(allowed_roles, CurrentUser(answer))
             THEN Answer(route, HTTP_403_FORBIDDEN, "Operation forbidden", 0, None)
             ELSE [answer EXCEPT !.op = route]

\* A dependency raised: the route function is not called.
Refused(answer) ==
    /\ response' = answer
    /\ call' = NoCall
    /\ result' = NoResult
    /\ committed' = FALSE

\* The answer of a route function whose repository call had the outcome out:
\* 404 on an empty list or None, 500 on an exception, else the success status.
RouteAnswer(answer, out, success) ==
    [answer EXCEPT !.status = IF out.kind = "raise"
                              THEN HTTP_500_INTERNAL_SERVER_ERROR
                              ELSE IF out.kind = "None" \/ out.rows = <<>>
                              THEN HTTP_404_NOT_FOUND
                              ELSE success]

\* The time of the requests.
RequestTime == 2 * AccessTokenDefaultSeconds

\* The tokens a client may present: an access token for each account that is
\* valid up to RequestTime, an expired one, one for an e-mail of no user, a
\* refresh token, an e-mail verification token, a forged one, and none.
RouteTokens ==
    { create_access_token([sub |-> u.email], <<>>, AccessTokenDefaultSeconds) :
        u \in UserTable }
    \cup
    { create_access_token([sub |-> <<"a","@","m">>], <<>>, 0),
      create_access_token([sub |-> <<"x","@","m">>], <<>>, AccessTokenDefaultSeconds),
      create_refresh_token([sub |-> <<"a","@","m">>], <<>>, AccessTokenDefaultSeconds),
      create_email_token([sub |-> <<"a","@","m">>], AccessTokenDefaultSeconds),
      jwt_encode(create_access_token([sub |-> <<"a","@","m">>], <<>>,
                                     AccessTokenDefaultSeconds).payload, "forged"),
      NoToken }

RouteGetContacts ==
    /\ session = "closed"
    /\ \E token \in RouteTokens, limit \in Limits, offset \in Offsets,
          first_name \in {None, <<"a","b","c">>} :
        LET answer == Dependencies("get_contacts", access_get, token, utcnow)
        IN  /\ bearer' = token
            /\ IF answer.status # HTTP_200_OK
               THEN Refused(answer)
               ELSE /\ call' = [NoCall EXCEPT !.op = "get_contacts",
                                   !.user = answer.user, !.limit = limit,
                                   !.offset = offset, !.first_name = first_name]
                    /\ result' \in get_contacts(contacts, limit, offset, first_name,
                                                None, None, answer.user)
                    /\ response' = RouteAnswer(answer, result', HTTP_200_OK)
                    /\ committed' = FALSE
    /\ session' = "open"
    /\ UNCHANGED <<contacts, next_id, today, elapsed, utcnow>>
    /\ UNCHANGED <<redis, log, db>>

RouteGetContactsByBirthday ==
    /\ session = "closed"
    /\ \E token \in RouteTokens, limit \in Limits, offset \in Offsets :
        LET answer == Dependencies("get_contacts_by_birthday", access_get, token, utcnow)
        IN  /\ bearer' = token
            /\ IF answer.status # HTTP_200_OK
               THEN Refused(answer)
               ELSE /\ call' = [NoCall EXCEPT !.op = "search_contacts_by_birthday",
                                   !.user = answer.user, !.limit = limit,
                                   !.offset = offset]
                    /\ result' = search_contacts_by_birthday(contacts, today, limit,
                                                             offset, answer.user)
                    /\ response' = RouteAnswer(answer, result', HTTP_200_OK)
                    /\ committed' = FALSE
    /\ session' = "open"
    /\ UNCHANGED <<contacts, next_id, today, elapsed, utcnow>>
    /\ UNCHANGED <<redis, log, db>>

RouteGetContact ==
    /\ session = "closed"
    /\ \E token \in RouteTokens, contact_id \in 1..MaxId :
        LET answer == [Dependencies("get_contact", access_get, token, utcnow)
                          EXCEPT !.contact_id = contact_id]
        IN  /\ bearer' = token
            /\ IF answer.status # HTTP_200_OK
               THEN Refused(answer)
               ELSE /\ call' = [NoCall EXCEPT !.op = "get_contact_by_id",
                                   !.user = answer.user, !.contact_id = contact_id]
                    /\ result' = get_contact_by_id(contacts, contact_id, answer.user)
                    /\ response' = RouteAnswer(answer, result', HTTP_200_OK)
                    /\ committed' = FALSE
    /\ session' = "open"
    /\ UNCHANGED <<contacts, next_id, today, elapsed, utcnow>>
    /\ UNCHANGED <<redis, log, db>>

RouteCreateContact ==
    /\ session = "closed"
    /\ next_id <= MaxId
    /\ \E token \in RouteTokens, body \in Bodies :
        LET answer == Dependencies("create_contact", access_create, token, utcnow)
            out == create(contacts, next_id, body, answer.user)
        IN  /\ bearer' = token
            /\ IF answer.status # HTTP_200_OK
               THEN Refused(answer) /\ UNCHANGED <<contacts, next_id>>
               ELSE /\ call' = [NoCall EXCEPT !.op = "create", !.user = answer.user,
                                              !.body = body]
                    /\ contacts' = out.table
                    /\ next_id' = next_id + 1
                    /\ result' = out.result
                    /\ committed' = out.committed
                    /\ response' = RouteAnswer(answer, out.result, HTTP_201_CREATED)
    /\ session' = "open"
    /\ UNCHANGED <<today, elapsed, utcnow>>
    /\ UNCHANGED <<redis, log, db>>

RouteUpdateContact ==
    /\ session = "closed"
    /\ \E token \in RouteTokens, contact_id \in 1..MaxId, body \in Bodies :
        LET answer == [Dependencies("update_contact", access_update, token, utcnow)
                          EXCEPT !.contact_id = contact_id]
            out == update(contacts, contact_id, body, answer.user)
        IN  /\ bearer' = token
            /\ IF answer.status # HTTP_200_OK
               THEN Refused(answer) /\ UNCHANGED contacts
               ELSE /\ call' = [NoCall EXCEPT !.op = "update", !.user = answer.user,
                                   !.contact_id = contact_id, !.body = body]
                    /\ contacts' = out.table
                    /\ result' = out.result
                    /\ committed' = out.committed
                    /\ response' = RouteAnswer(answer, out.result, HTTP_200_OK)
    /\ session' = "open"
    /\ UNCHANGED <<next_id, today, elapsed, utcnow>>
    /\ UNCHANGED <<redis, log, db>>

RouteDeleteContact ==
    /\ session = "closed"
    /\ \E token \in RouteTokens, contact_id \in 1..MaxId :
        LET answer == [Dependencies("delete_contact", access_delete, token, utcnow)
                          EXCEPT !.contact_id = contact_id]
            out == remove(contacts, contact_id, answer.user)
        IN  /\ bearer' = token
            /\ IF answer.status # HTTP_200_OK
               THEN Refused(answer) /\ UNCHANGED contacts
               ELSE /\ call' = [NoCall EXCEPT !.op = "remove", !.user = answer.user,
                                              !.contact_id = contact_id]
                    /\ contacts' = out.table
                    /\ result' = out.result
                    /\ committed' = out.committed
                    /\ response' = RouteAnswer(answer, out.result, HTTP_204_NO_CONTENT)
    /\ session' = "open"
    /\ UNCHANGED <<next_id, today, elapsed, utcnow>>
    /\ UNCHANGED <<redis, log, db>>

\* The response is sent and get_db closes the session of the request.
SendResponse ==
    /\ session = "open"
    /\ session' = "closed"
    /\ committed' = FALSE
    /\ call' = NoCall
    /\ result' = NoResult
    /\ bearer' = NoToken
    /\ response' = NoResponse
    /\ UNCHANGED <<contacts, next_id, today, elapsed, utcnow>>
    /\ UNCHANGED <<redis, log, db>>

\* The table is empty or holds one contact of the user-role account, which
\* that account cannot have created through the routes.
InitRoutes ==
    /\ \/ contacts = <<>> /\ next_id = 1
       \/ /\ contacts = <<create(<<>>, 1, Body(<<"A","b","c">>, <<"X","y","z">>,
                                              <<"a","@","x",".","i","o">>,
                                              <<2000, 1, 1>>), 2).result.rows[1]>>
          /\ next_id = 2
    /\ today \in StartDays
    /\ elapsed = 0
    /\ session = "closed"
    /\ committed = FALSE
    /\ call = NoCall
    /\ result = NoResult
    /\ utcnow = RequestTime
    /\ bearer = NoToken
    /\ response = NoResponse
    /\ RequestIdle

NextRoutes ==
    \/ RouteGetContacts
    \/ RouteGetContactsByBirthday
    \/ RouteGetContact
    \/ RouteCreateContact
    \/ RouteUpdateContact
    \/ RouteDeleteContact
    \/ SendResponse

SpecRoutes == InitRoutes /\ [][NextRoutes]_vars

-----------------------------------------------------------------------------
(* Properties of the routes.                                               *)

Routes ==
    {"get_contacts", "get_contacts_by_birthday", "get_contact", "create_contact",
     "update_contact", "delete_contact"}

\* A request has been served by a route.
Routed == session = "open" /\ response.op \in Routes

\* The roles the role policy is to let through on a route.
AllowList(route) ==
    CASE route \in {"get_contacts", "get_contacts_by_birthday", "get_contact"}
            -> {"admin", "moderator", "user"}
      [] route \in {"create_contact", "update_contact"} -> {"admin", "moderator"}
      [] route = "delete_contact" -> {"admin"}

\* The token is an access token signed by the service, not expired at the time
\* now, whose subject is the e-mail of the user u.
ValidAccessTokenOf(token, now, u) ==
    /\ token.key = SECRET_KEY
    /\ DOMAIN token.payload = {"sub", "iat", "exp", "scope"}
    /\ token.payload["scope"] = "access_token"
    /\ token.payload["exp"] >= now
    /\ token.payload["sub"] = u.email

\* C16: a request of an authenticated user passes the role check of a contact
\* route if and only if the user's role is in the route's list: the read
\* routes let admin, moderator and user through, create and update admin and
\* moderator, delete admin only.  A user-role account on delete gets 403
\* whether or not the contact exists or is its own.
C16_RolePolicyAllowLists ==
    \A u \in UserTable :
        (Routed /\ ValidAccessTokenOf(bearer, utcnow, u))
        => /\ response.status = 403 <=> u.role \notin AllowList(response.op)
           /\ response.status # 403 => call.op # "none" /\ call.user = u.id
           /\ (u.role = "user" /\ response.op = "delete_contact")
                => response.status = 403 /\ call = NoCall

\* The user-role account is refused the delete of a contact it owns.
C16_Witness ==
    /\ Routed
    /\ response.op = "delete_contact"
    /\ \E u \in UserTable :
        /\ u.role = "user"
        /\ ValidAccessTokenOf(bearer, utcnow, u)
        /\ \E i \in 1..Len(contacts) :
            contacts[i].id = response.contact_id /\ contacts[i].user_id = u.id
    /\ response.status = 403

\* A moderator invokes create and passes.
C16_ModeratorCreates ==
    /\ Routed
    /\ response.op = "create_contact"
    /\ \E u \in UserTable : u.role = "moderator" /\ ValidAccessTokenOf(bearer, utcnow, u)
    /\ response.status = 201

\* The bearer token of the request is the valid access token of no user.
InvalidToken(token, now) == \A u \in UserTable : ~ValidAccessTokenOf(token, now, u)

\* No function of the contact repository ran and the table is as it was.
NoRepositoryAccess ==
    /\ call' = NoCall
    /\ result' = NoResult
    /\ committed' = FALSE
    /\ contacts' = contacts
    /\ next_id' = next_id

\* C20: on every contact route a request whose token is invalid ends with
\* 401 and a request whose role is not allowed ends with 403, and in both
\* cases no repository function is called and the contacts table is
\* unchanged: the role check comes after the validation of the token and
\* before the repository.
C20_RefusedBeforeRepository ==
    [][(session = "closed" /\ session' = "open" /\ response'.op \in Routes)
        => /\ InvalidToken(bearer', utcnow')
                => response'.status = 401 /\ NoRepositoryAccess
           /\ \A u \in UserTable :
                (ValidAccessTokenOf(bearer', utcnow', u)
                 /\ u.role \notin AllowList(response'.op))
                => response'.status = 403 /\ NoRepositoryAccess]_vars

\* The same, with the status the code gives a signed token without scope
\* claim: C20 fails only where C15 does.
C20_RefusedBeforeRepositoryOr500 ==
    [][(session = "closed" /\ session' = "open" /\ response'.op \in Routes)
        => /\ InvalidToken(bearer', utcnow')
                => /\ response'.status =
                        IF bearer' # NoToken /\ bearer'.key = SECRET_KEY
                           /\ "scope" \notin DOMAIN bearer'.payload
                        THEN 500 ELSE 401
                   /\ NoRepositoryAccess
           /\ \A u \in UserTable :
                (ValidAccessTokenOf(bearer', utcnow', u)
                 /\ u.role \notin AllowList(response'.op))
                => response'.status = 403 /\ NoRepositoryAccess]_vars

-----------------------------------------------------------------------------
(* The rate limiter.  RateLimiter(times=2, seconds=5) is a dependency of   *)
(* the three GET routes and of the POST route, listed after the route's    *)
(* RolesAccess object, so it runs once get_current_user and the role check *)
(* have returned; the PUT and DELETE routes do not list it.  Its store     *)
(* redis holds, per client and path of a route, the count of the requests  *)
(* let through since the entry was set and the time the entry expires.     *)
(* log is the history of the requests that got past get_current_user and   *)
(* the role check: time, client, route, contact_id of the path, and        *)
(* whether the route function was called.                                  *)

\* RateLimiter(times=2, seconds=5).
RateLimiterTimes == 2

RateLimiterSeconds == 5

\* The status of the limiter's default callback.
HTTP_429_TOO_MANY_REQUESTS == 429

\* Requests on record in a run of the limiter specification.
MaxRequests == 3

\* The routes whose decorator lists Depends(RateLimiter(times=2, seconds=5)).
RateLimited == {"get_contacts", "get_contacts_by_birthday", "get_contact", "create_contact"}

\* RateLimiter.__call__, the limiter's check and increment: the first request
\* of a client on a path sets the entry to 1, to expire after seconds; while
\* the entry lives a request is let through and counted if the count stays
\* within times, and is refused, uncounted, otherwise.
RateLimiter(store, client, route, contact_id, now) ==
    LET live == {e \in store : e.expire_at > now}
        mine == {e \in live : e.client = client /\ e.route = route
                              /\ e.contact_id = contact_id}
    IN  IF mine = {}
        THEN [pass |-> TRUE,
              store |-> live \cup {[client |-> client, route |-> route,
                                    contact_id |-> contact_id, count |-> 1,
                                    expire_at |-> now + RateLimiterSeconds]}]
        ELSE LET e == CHOOSE x \in mine : TRUE
             IN  IF e.count + 1 > RateLimiterTimes
                 THEN [pass |-> FALSE, store |-> live]
                 ELSE [pass |-> TRUE,
                       store |-> (live \ {e}) \cup {[e EXCEPT !.count = e.count + 1]}]

\* request.client.host of the requests.
Clients == {"10.0.0.1", "10.0.0.2"}

\* The tokens of the requests: the admin's access token, and a forged one.
LimiterTokens ==
    { create_access_token([sub |-> <<"a","@","m">>], <<>>, RequestTime),
      jwt_encode(create_access_token([sub |-> <<"a","@","m">>], <<>>,
                                     RequestTime).payload, "forged") }

\* The body of the POST and PUT requests.
LimiterBody ==
    Body(<<"B","c","d">>, <<"X","y","z">>, <<"b","@","x",".","i","o">>, <<2024, 1, 1>>)

\* The call of the repository a route function makes for the user, and the
\* status it returns on success.
RouteFunction(route, user_id, contact_id) ==
    CASE route = "get_contacts" ->
            [call |-> [NoCall EXCEPT !.op = "get_contacts", !.user = user_id,
                                     !.limit = DefaultLimit],
             out |-> [table |-> contacts, committed |-> FALSE,
                      result |-> CHOOSE r \in get_contacts(contacts, DefaultLimit, 0, None,
                                                           None, None, user_id) : TRUE],
             success |-> HTTP_200_OK]
      [] route = "get_contacts_by_birthday" ->
            [call |-> [NoCall EXCEPT !.op = "search_contacts_by_birthday",
                                     !.user = user_id, !.limit = DefaultLimit],
             out |-> [table |-> contacts, committed |-> FALSE,
                      result |-> search_contacts_by_birthday(contacts, today,
                                                             DefaultLimit, 0, user_id)],
             success |-> HTTP_200_OK]
      [] route = "get_contact" ->
            [call |-> [NoCall EXCEPT !.op = "get_contact_by_id", !.user = user_id,
                                     !.contact_id = contact_id],
             out |-> [table |-> contacts, committed |-> FALSE,
                      result |-> get_contact_by_id(contacts, contact_id, user_id)],
             success |-> HTTP_200_OK]
      [] route = "create_contact" ->
            [call |-> [NoCall EXCEPT !.op = "create", !.user = user_id,
                                     !.body = LimiterBody],
             out |-> create(contacts, next_id, LimiterBody, user_id),
             success |-> HTTP_201_CREATED]
      [] route = "update_contact" ->
            [call |-> [NoCall EXCEPT !.op = "update", !.user = user_id,
                                     !.contact_id = contact_id, !.body = LimiterBody],
             out |-> update(contacts, contact_id, LimiterBody, user_id),
             success |-> HTTP_200_OK]
      [] route = "delete_contact" ->
            [call |-> [NoCall EXCEPT !.op = "remove", !.user = user_id,
                                     !.contact_id = contact_id],
             out |-> remove(contacts, contact_id, user_id),
             success |-> HTTP_204_NO_CONTENT]

LogEntry(client, route, contact_id, handled) ==
    [time |-> utcnow, client |-> client, route |-> route, contact_id |-> contact_id,
     handled |-> handled]

\* A request of a client on a route: the dependencies in the order of the
\* decorator, then the route function.
Request(route, allowed_roles, client, token, contact_id) ==
    LET answer == [Dependencies(route, allowed_roles, token, utcnow)
                      EXCEPT !.contact_id = contact_id]
        limiter == IF route \in RateLimited
                   THEN RateLimiter(redis, client, route, contact_id, utcnow)
                   ELSE [pass |-> TRUE, store |-> redis]
        f == RouteFunction(route, answer.user, contact_id)
    IN  /\ session = "closed"
        /\ Len(log) < MaxRequests
        /\ session' = "open"
        /\ bearer' = token
        /\ IF answer.status # HTTP_200_OK
           THEN /\ Refused(answer)
                /\ UNCHANGED <<contacts, next_id, redis, log>>
           ELSE IF ~limiter.pass
           THEN /\ Refused([answer EXCEPT !.status = HTTP_429_TOO_MANY_REQUESTS,
                                          !.detail = "Too Many Requests"])
                /\ redis' = limiter.store
                /\ log' = Append(log, LogEntry(client, route, contact_id, FALSE))
                /\ UNCHANGED <<contacts, next_id>>
           ELSE /\ call' = f.call
                /\ contacts' = f.out.table
                /\ next_id' = IF route = "create_contact" THEN next_id + 1 ELSE next_id
                /\ result' = f.out.result
                /\ committed' = f.out.committed
                /\ response' = RouteAnswer(answer, f.out.result, f.success)
                /\ redis' = limiter.store
                /\ log' = Append(log, LogEntry(client, route, contact_id, TRUE))
        /\ UNCHANGED <<today, elapsed, utcnow, db>>

LimitedGetContacts ==
    /\ session = "closed"
    /\ \E client \in Clients, token \in LimiterTokens :
        Request("get_contacts", access_get, client, token, 0)

LimitedGetContactsByBirthday ==
    /\ session = "closed"
    /\ \E client \in Clients, token \in LimiterTokens :
        Request("get_contacts_by_birthday", access_get, client, token, 0)

LimitedGetContact ==
    /\ session = "closed"
    /\ \E client \in Clients, token \in LimiterTokens :
        Request("get_contact", access_get, client, token, 1)

LimitedCreateContact ==
    /\ next_id <= MaxId
    /\ \E client \in Clients, token \in LimiterTokens :
        Request("create_contact", access_create, client, token, 0)

UnlimitedUpdateContact ==
    /\ session = "closed"
    /\ \E client \in Clients, token \in LimiterTokens :
        Request("update_contact", access_update, client, token, 1)

UnlimitedDeleteContact ==
    /\ session = "closed"
    /\ \E client \in Clients, token \in LimiterTokens :
        Request("delete_contact", access_delete, client, token, 1)

\* The response is sent; the limiter's store and the record of the requests
\* stay.
SendLimitedResponse ==
    /\ session = "open"
    /\ session' = "closed"
    /\ committed' = FALSE
    /\ call' = NoCall
    /\ result' = NoResult
    /\ bearer' = NoToken
    /\ response' = NoResponse
    /\ UNCHANGED <<contacts, next_id, today, elapsed, utcnow, redis, log, db>>

\* Time passes between two requests, up to two periods of the limiter.
Wait ==
    /\ session = "closed"
    /\ utcnow + (RateLimiterSeconds - 1) <= RequestTime + 2 * RateLimiterSeconds
    /\ utcnow' = utcnow + (RateLimiterSeconds - 1)
    /\ redis' = {e \in redis : e.expire_at > utcnow'}
    /\ UNCHANGED <<contacts, next_id, today, elapsed, session, committed, call, result,
                   bearer, response, log, db>>

\* The table holds one contact of the admin.
InitLimiter ==
    /\ contacts = <<BirthdayRow(1, <<2000, 1, 1>>)>>
    /\ next_id = 2
    /\ today = <<2023, 12, 29>>
    /\ elapsed = 0
    /\ session = "closed"
    /\ committed = FALSE
    /\ call = NoCall
    /\ result = NoResult
    /\ utcnow = RequestTime
    /\ bearer = NoToken
    /\ response = NoResponse
    /\ RequestIdle

NextLimiter ==
    \/ LimitedGetContacts
    \/ LimitedGetContactsByBirthday
    \/ LimitedGetContact
    \/ LimitedCreateContact
    \/ UnlimitedUpdateContact
    \/ UnlimitedDeleteContact
    \/ SendLimitedResponse
    \/ Wait

SpecLimiter == InitLimiter /\ [][NextLimiter]_vars

-----------------------------------------------------------------------------
(* Properties of the rate limiter.                                         *)

\* Requests i and j on record are of the same client on the same route and
\* path.
SameClientAndRoute(i, j) ==
    /\ log[i].client = log[j].client
    /\ log[i].route = log[j].route
    /\ log[i].contact_id = log[j].contact_id

\* C21: on every contact route (list, birthdays, get by id, create, update,
\* delete) the limiter's check and increment comes before the route function:
\* a third request of the same client on the same route within 5 seconds is
\* refused and the route function is not called.
C21_ThirdRequestRefusedOnEveryRoute ==
    \A j, k, i \in 1..Len(log) :
        (/\ j < k /\ k < i
         /\ SameClientAndRoute(j, k) /\ SameClientAndRoute(k, i)
         /\ log[i].time - log[j].time < 5)
        => ~log[i].handled

\* What the code does instead.  On the four routes that list the limiter, a
\* third request is refused when it comes less than 5 seconds after a request
\* that found no entry of the limiter (none of that client on that path in
\* the 5 seconds before it); on update and delete no request is refused.
C21_LimitedRoutesOnly ==
    /\ \A j, k, i \in 1..Len(log) :
        (/\ j < k /\ k < i
         /\ SameClientAndRoute(j, k) /\ SameClientAndRoute(k, i)
         /\ log[j].route \in {"get_contacts", "get_contacts_by_birthday",
                              "get_contact", "create_contact"}
         /\ \A h \in 1..(j - 1) :
                SameClientAndRoute(h, j) => log[h].time + 5 <= log[j].time
         /\ log[i].time - log[j].time < 5)
        => ~log[i].handled
    /\ \A i \in 1..Len(log) :
        log[i].route \in {"update_contact", "delete_contact"} => log[i].handled

\* A third request on the list route within the period is answered 429 and no
\* function of the repository is called.
C21_ThirdListRequestRefused ==
    /\ session = "open"
    /\ response.op = "get_contacts"
    /\ response.status = 429
    /\ call = NoCall
    /\ Len(log) = 3
    /\ \A i \in 1..3 : log[i].route = "get_contacts" /\ log[i].client = log[1].client
    /\ log[3].time - log[1].time < 5

\* Three updates of one client at the same instant all reach the repository.
C21_ThirdUpdateHandled ==
    /\ session = "open"
    /\ response.op = "update_contact"
    /\ call.op = "update"
    /\ Len(log) = 3
    /\ \A i \in 1..3 : /\ log[i].route = "update_contact"
                       /\ log[i].client = log[1].client
                       /\ log[i].time = log[1].time
                       /\ log[i].handled

-----------------------------------------------------------------------------
(* The session of a request, step by step.  get_db is a generator: it      *)
(* opens the session and yields it; the dependencies and the route         *)
(* function of the request run with it and return or raise; the exception, *)
(* if any, is raised in the generator at the yield, where                  *)
(* `except SQLAlchemyError` rolls back and raises HTTPException(400), and  *)
(* `finally` closes the session.  A query, a commit or the refresh after   *)
(* a commit may raise SQLAlchemyError; a commit writes all the changes the *)
(* session holds, or none.                                                 *)

HTTP_400_BAD_REQUEST == 400

\* Faulty variant of get_db: db.close() follows the try statement instead of
\* being its finally clause, so an exception the except clause does not
\* catch leaves the generator without it.
get_db_close_after_try(pc, exc) ==
    CASE pc = "yield" -> IF exc = "SQLAlchemyError" THEN "except"
                         ELSE IF exc = "none" THEN "finally"
                         ELSE "done"
      [] pc = "except" -> "done"
      [] pc = "finally" -> "done"

\* get_db: where the generator goes on from pc when exc is raised at the
\* yield ("none" when the request returned).
get_db(pc, exc) ==
    CASE pc = "yield" -> IF exc = "SQLAlchemyError" THEN "except" ELSE "finally"
      [] pc = "except" -> "finally"
      [] pc = "finally" -> "done"

\* Faulty variant of rollback: the except clause does not call it.
rollback_skipped(s) == s

\* db.rollback(): the changes the session holds are dropped.
rollback(s) == [s EXCEPT !.pending = <<>>, !.rolled_back = TRUE]

\* The tokens of the requests: the access tokens of the admin and of the
\* user-role account, and a forged one.
SessionTokens ==
    LimiterTokens \cup {create_access_token([sub |-> <<"u","@","m">>], <<>>, RequestTime)}

\* The database call of a request that raises SQLAlchemyError, if any.
Faults == {"none", "query", "commit", "refresh"}

\* get_db up to the yield: db = SessionLocal().
GetDbOpen ==
    /\ db.pc = "none"
    /\ db' = [NoSession EXCEPT !.pc = "yield", !.before = contacts, !.opens = 1]
    /\ session' = "open"
    /\ UNCHANGED <<contacts, next_id, today, elapsed, committed, call, result,
                   utcnow, bearer, response, redis, log>>

\* The request leaves with the exception exc (or returns): control is back
\* in get_db.
Leaves(exc, detail, pending) ==
    db' = [db EXCEPT !.pc = get_db("yield", exc), !.raised = exc, !.exc = exc,
                     !.detail = detail, !.pending = pending]

\* The dependencies and the route function of a request, run with the
\* session of get_db.
Serve(route, allowed_roles, token, contact_id, fault) ==
    LET answer == [Dependencies(route, allowed_roles, token, utcnow)
                      EXCEPT !.contact_id = contact_id]
        f == RouteFunction(route, answer.user, contact_id)
        routed == [answer EXCEPT !.op = route, !.status = 0]
    IN  /\ db.pc = "yield"
        /\ bearer' = token
        /\ IF fault = "query"
           THEN /\ Refused(routed)
                /\ Leaves("SQLAlchemyError", "query failed", <<>>)
                /\ UNCHANGED <<contacts, next_id>>
           ELSE IF answer.status # HTTP_200_OK
           THEN /\ fault = "none"
                /\ Refused(answer)
                /\ Leaves("HTTPException", answer.detail, <<>>)
                /\ UNCHANGED <<contacts, next_id>>
           ELSE IF fault = "commit"
           THEN /\ f.out.committed
                /\ call' = f.call
                /\ result' = NoResult
                /\ committed' = FALSE
                /\ response' = routed
                /\ Leaves("SQLAlchemyError", "commit failed", f.out.table)
                /\ UNCHANGED <<contacts, next_id>>
           ELSE IF fault = "refresh"
           THEN /\ route = "create_contact"
                /\ call' = f.call
                /\ contacts' = f.out.table
                /\ next_id' = next_id + 1
                /\ result' = NoResult
                /\ committed' = TRUE
                /\ response' = routed
                /\ Leaves("SQLAlchemyError", "refresh failed", <<>>)
           ELSE /\ call' = f.call
                /\ contacts' = f.out.table
                /\ next_id' = IF route = "create_contact" THEN next_id + 1 ELSE next_id
                /\ result' = f.out.result
                /\ committed' = f.out.committed
                /\ response' = RouteAnswer(answer, f.out.result, f.success)
                /\ Leaves(IF f.out.result.kind = "raise" THEN "Exception"
                          ELSE IF response'.status = HTTP_404_NOT_FOUND
                          THEN "HTTPException" ELSE "none",
                          "", <<>>)
        /\ UNCHANGED <<today, elapsed, session, utcnow, redis, log>>

ServeGetContacts ==
    /\ db.pc = "yield"
    /\ \E token \in SessionTokens, fault \in Faults :
        Serve("get_contacts", access_get, token, 0, fault)

ServeGetContactsByBirthday ==
    /\ db.pc = "yield"
    /\ \E token \in SessionTokens, fault \in Faults :
        Serve("get_contacts_by_birthday", access_get, token, 0, fault)

ServeGetContact ==
    /\ db.pc = "yield"
    /\ \E token \in SessionTokens, contact_id \in 1..MaxId, fault \in Faults :
        Serve("get_contact", access_get, token, contact_id, fault)

ServeCreateContact ==
    /\ db.pc = "yield"
    /\ next_id <= MaxId
    /\ \E token \in SessionTokens, fault \in Faults :
        Serve("create_contact", access_create, token, 0, fault)

ServeUpdateContact ==
    /\ db.pc = "yield"
    /\ \E token \in SessionTokens, contact_id \in 1..MaxId, fault \in Faults :
        Serve("update_contact", access_update, token, contact_id, fault)

ServeDeleteContact ==
    /\ db.pc = "yield"
    /\ \E token \in SessionTokens, contact_id \in 1..MaxId, fault \in Faults :
        Serve("delete_contact", access_delete, token, contact_id, fault)

\* except SQLAlchemyError as err: db.rollback(); raise HTTPException(400,
\* detail=str(err)).
GetDbExcept ==
    /\ db.pc = "except"
    /\ db' = [rollback(db) EXCEPT !.pc = get_db("except", "HTTPException"),
                                  !.exc = "HTTPException"]
    /\ response' = [response EXCEPT !.status = HTTP_400_BAD_REQUEST,
                                    !.detail = db.detail]
    /\ UNCHANGED <<contacts, next_id, today, elapsed, session, committed, call, result,
                   utcnow, bearer, redis, log>>

\* finally: db.close().  A change the session still holds goes with it.
GetDbFinally ==
    /\ db.pc = "finally"
    /\ db' = [db EXCEPT !.pc = get_db("finally", db.exc), !.closes = db.closes + 1]
    /\ session' = "closed"
    /\ UNCHANGED <<contacts, next_id, today, elapsed, committed, call, result,
                   utcnow, bearer, response, redis, log>>

\* The response is sent (500 when an exception other than HTTPException left
\* the request) and the next request may come.
EndRequest ==
    /\ db.pc = "done"
    /\ db' = NoSession
    /\ session' = "closed"
    /\ committed' = FALSE
    /\ call' = NoCall
    /\ result' = NoResult
    /\ bearer' = NoToken
    /\ response' = NoResponse
    /\ UNCHANGED <<contacts, next_id, today, elapsed, utcnow, redis, log>>

InitSession ==
    /\ contacts = <<BirthdayRow(1, <<2000, 2, 29>>)>>
    /\ next_id = 2
    /\ today \in StartDays
    /\ elapsed = 0
    /\ session = "closed"
    /\ committed = FALSE
    /\ call = NoCall
    /\ result = NoResult
    /\ utcnow = RequestTime
    /\ bearer = NoToken
    /\ response = NoResponse
    /\ RequestIdle

ServeRequest ==
    \/ ServeGetContacts
    \/ ServeGetContactsByBirthday
    \/ ServeGetContact
    \/ ServeCreateContact
    \/ ServeUpdateContact
    \/ ServeDeleteContact

NextSession ==
    \/ GetDbOpen
    \/ ServeRequest
    \/ GetDbExcept
    \/ GetDbFinally
    \/ EndRequest

\* A request that has its session is served, and the generator of get_db is
\* run on to its end.
SpecSession ==
    /\ InitSession
    /\ [][NextSession]_vars
    /\ WF_vars(ServeRequest)
    /\ WF_vars(GetDbExcept)
    /\ WF_vars(GetDbFinally)

-----------------------------------------------------------------------------
(* The session of get_db is closed.                                        *)

\* The ways a request leaves: it returns ("none"), raises HTTPException
\* (401, 403, 404), SQLAlchemyError, or another exception.
ExitPaths == {"none", "HTTPException", "SQLAlchemyError", "Exception"}

\* C22: every session get_db opens for a request is eventually closed, and
\* closed exactly once, on every exit path of the request: it is never
\* closed twice, the generator never ends with the session not closed, and a
\* session that is open leads to the generator's end with one db.close(),
\* whether the request returned, raised HTTPException, raised
\* SQLAlchemyError or raised another exception.
C22_SessionClosedExactlyOnce ==
    /\ [](db.closes <= db.opens /\ db.raised \in ExitPaths)
    /\ [](db.pc = "done" => db.opens = 1 /\ db.closes = 1 /\ session = "closed")
    /\ \A exit \in ExitPaths :
          (db.pc \in {"except", "finally"} /\ db.closes = 0 /\ db.raised = exit)
              ~> (db.pc = "done" /\ db.closes = 1 /\ db.raised = exit)
    /\ (db.pc = "yield") ~> (db.pc = "done" /\ db.closes = 1)

\* A session closed once after SQLAlchemyError left the request.
C22_Witness ==
    /\ db.pc = "done"
    /\ db.raised = "SQLAlchemyError"
    /\ db.opens = 1
    /\ db.closes = 1

\* A session closed once after an exception that is neither HTTPException
\* nor SQLAlchemyError left the request.
C22_ClosedAfterUnhandledException ==
    db.pc = "done" /\ db.raised = "Exception" /\ db.closes = 1

\* A session closed once after HTTPException (401, 403 or 404) left the
\* request.
C22_ClosedAfterHandledFailure ==
    /\ db.pc = "done"
    /\ db.raised = "HTTPException"
    /\ db.closes = 1
    /\ response.status \in {HTTP_401_UNAUTHORIZED, HTTP_403_FORBIDDEN, HTTP_404_NOT_FOUND}

\* A session closed once after the request returned.
C22_ClosedAfterReturn ==
    db.pc = "done" /\ db.raised = "none" /\ db.closes = 1

-----------------------------------------------------------------------------
(* SQLAlchemyError leaves a request.                                       *)

\* The store holds nothing of the request but a whole write: it is the table
\* the session was opened on, or that table with the whole contact of a
\* create whose commit went through before db.refresh failed.
NoPartialWrite ==
    \/ contacts = db.before
    \/ /\ call.op = "create"
       /\ \E new_id \in 1..(MaxId + 1) :
             contacts = create(db.before, new_id, call.body, call.user).table

\* C23: when SQLAlchemyError leaves a request that holds the session of
\* get_db, the except clause rolls the session back (it holds no change any
\* more) in the step that raises HTTPException(400) with the message of the
\* error, and leaves the store alone; from then on the answer of the request
\* is 400 with that message and the store shows no partial write of the
\* request; and the request does come to its end with that answer.
C23_RollbackThen400 ==
    /\ [][db.pc = "except" =>
            /\ db'.rolled_back
            /\ db'.pending = <<>>
            /\ db'.exc = "HTTPException"
            /\ response'.status = HTTP_400_BAD_REQUEST
            /\ response'.detail = db.detail
            /\ contacts' = contacts]_vars
    /\ [](db.raised = "SQLAlchemyError" /\ db.pc \in {"finally", "done"} =>
            /\ db.rolled_back
            /\ db.pending = <<>>
            /\ response.status = HTTP_400_BAD_REQUEST
            /\ response.detail = db.detail
            /\ db.detail \in {"query failed", "commit failed", "refresh failed"}
            /\ NoPartialWrite)
    /\ [](db.raised = "SQLAlchemyError" /\ db.pc = "except" =>
            ~db.rolled_back /\ response.status # HTTP_400_BAD_REQUEST /\ NoPartialWrite)
    /\ (db.pc = "except")
          ~> (db.pc = "done" /\ db.rolled_back /\ response.status = HTTP_400_BAD_REQUEST)

\* The commit of update_contact failed with the six fields assigned in the
\* session: the request ended with 400 and the message of the error, the
\* session rolled back, the contact in the store as it was.
C23_Witness ==
    /\ db.pc = "done"
    /\ db.raised = "SQLAlchemyError"
    /\ call.op = "update"
    /\ db.detail = "commit failed"
    /\ db.rolled_back
    /\ response.status = HTTP_400_BAD_REQUEST
    /\ response.detail = "commit failed"
    /\ contacts = db.before
    /\ \E i \in 1..Len(contacts) :
          contacts[i].id = call.contact_id /\ contacts[i].email # call.body.email

\* The session holds the six assigned fields of update_contact when its
\* commit has failed and the except clause has not run yet.
C23_PendingUpdate ==
    /\ db.pc = "except"
    /\ call.op = "update"
    /\ db.pending # <<>>
    /\ db.pending # contacts

\* db.refresh failed after the commit of create_contact: the request ended
\* with 400 and the whole new contact is in the store.
C23_CommittedBeforeFailure ==
    /\ db.pc = "done"
    /\ db.raised = "SQLAlchemyError"
    /\ response.status = HTTP_400_BAD_REQUEST
    /\ contacts # db.before

====
